---------------------------- MODULE Spec2Model ----------------------------
(***************************************************************************)
(* Land-grid generator (server/scripts/generate-land-grid.py and           *)
(* generate-land-grid-fast.py): rasterisation of GeoJSON features into a   *)
(* HEIGHT x WIDTH land/sea grid and its two encodings (run-length rows,    *)
(* packed bits).                                                           *)
(*                                                                         *)
(* Numbers.  The scripts compute with floats in degrees.  Here every       *)
(* coordinate is an integer counting HALF degrees (90 degrees = 180), and  *)
(* RESOLUTION is a whole number of degrees, so that cell centres           *)
(* ((row + 0.5) * RESOLUTION) and cell borders are exact.  Quotients that  *)
(* the code forms (interpolation along a line, the ray/edge crossing) are  *)
(* kept exact as numerator and denominator.  NaN is a distinguished value  *)
(* with Python's comparison rules (every comparison with NaN is false).    *)
(***************************************************************************)
EXTENDS Integers, Sequences, FiniteSets

(* The resolution the model runs at, in whole degrees.  The script runs at *)
(* 0.02 degrees (9000 x 18000 cells); the model runs the same code on a    *)
(* coarse grid.                                                            *)
ModelResolution == 40

RESOLUTION == ModelResolution

(* int(180 / res) and int(360 / res) *)
HeightAt(res) == 180 \div res

WidthAt(res) == 360 \div res

HEIGHT == HeightAt(RESOLUTION)

WIDTH == WidthAt(RESOLUTION)

(* float('nan'), which json.load yields for the literal NaN *)
NaN == -999999

IsNaN(x) == x = NaN

(* Python's int() of the quotient n / d, d > 0: truncation toward zero *)
TruncDiv(n, d) == IF n >= 0 THEN n \div d ELSE -((-n) \div d)

Max2(a, b) == IF a >= b THEN a ELSE b

Min2(a, b) == IF a <= b THEN a ELSE b

(* the index as computed, not clamped *)
NoClamp(n, v) == v

(* max(0, min(n - 1, v)) *)
Clamp(n, v) == Max2(0, Min2(n - 1, v))

AbsInt(a) == IF a < 0 THEN -a ELSE a

(* lat_lon_to_grid at resolution res, for the point (latNum / den,         *)
(* lonNum / den) in half degrees, den > 0:                                 *)
(*   row = int((90 - lat) / RESOLUTION), col = int((lon + 180) / RESOLUTION)*)
(* each clamped into the grid.                                             *)
LatLonToGridAt(res, latNum, lonNum, den) ==
    << Clamp(HeightAt(res), TruncDiv(180 * den - latNum, 2 * res * den)),
       Clamp(WidthAt(res), TruncDiv(lonNum + 360 * den, 2 * res * den)) >>

lat_lon_to_grid(lat, lon) == LatLonToGridAt(RESOLUTION, lat, lon, 1)

(* int(float('nan')) raises ValueError *)
LatLonRaises(lat, lon) == IsNaN(lat) \/ IsNaN(lon)

(* grid_to_lat_lon: the cell centre <<lat, lon>>, in half degrees *)
GridToLatLonAt(res, row, col) ==
    << 180 - (2 * row + 1) * res, (2 * col + 1) * res - 360 >>

grid_to_lat_lon(row, col) == GridToLatLonAt(RESOLUTION, row, col)

Rows == 0 .. (HEIGHT - 1)

Cols == 0 .. (WIDTH - 1)

(* ------------------------- Python comparisons ------------------------- *)
(* a < b and a > b on floats: false as soon as one side is NaN *)
Lt(a, b) == ~IsNaN(a) /\ ~IsNaN(b) /\ a < b

Gt(a, b) == ~IsNaN(a) /\ ~IsNaN(b) /\ a > b

(* min(xs) and max(xs) of a non-empty list: the first element, replaced by *)
(* each later one that compares smaller (greater)                          *)
RECURSIVE PyMinFrom(_, _, _)
PyMinFrom(xs, k, m) ==
    IF k > Len(xs) THEN m
    ELSE PyMinFrom(xs, k + 1, IF Lt(xs[k], m) THEN xs[k] ELSE m)

PyMin(xs) == PyMinFrom(xs, 2, xs[1])

RECURSIVE PyMaxFrom(_, _, _)
PyMaxFrom(xs, k, m) ==
    IF k > Len(xs) THEN m
    ELSE PyMaxFrom(xs, k + 1, IF Gt(xs[k], m) THEN xs[k] ELSE m)

PyMax(xs) == PyMaxFrom(xs, 2, xs[1])

(* ------------------------------ ingest -------------------------------- *)
(* A vertex is <<lon, lat>> (GeoJSON order).  calculate_bbox(coords) is    *)
(* <<min lon, min lat, max lon, max lat>>; min() of an empty list raises   *)
(* ValueError.                                                             *)
BboxRaises(coords) == Len(coords) = 0

calculate_bbox(coords) ==
    LET lons == [k \in 1 .. Len(coords) |-> coords[k][1]]
        lats == [k \in 1 .. Len(coords) |-> coords[k][2]]
    IN  << PyMin(lons), PyMin(lats), PyMax(lons), PyMax(lats) >>

PolygonData(coords, line, point) ==
    [coords |-> coords, bbox |-> calculate_bbox(coords),
     is_line |-> line, is_point |-> point]

PointData(pt) ==
    [coords |-> << pt >>, bbox |-> << pt[1], pt[2], pt[1], pt[2] >>,
     is_line |-> FALSE, is_point |-> TRUE]

Loaded(ps) == [err |-> FALSE, polygons |-> ps]

LoadFailed == [err |-> TRUE, polygons |-> << >>]

(* the outer rings of the polygons polys[k..], each with its bbox *)
RECURSIVE LoadRings(_, _, _)
LoadRings(polys, k, acc) ==
    IF k > Len(polys) THEN Loaded(acc)
    ELSE IF Len(polys[k]) = 0 \/ BboxRaises(polys[k][1]) THEN LoadFailed
    ELSE LoadRings(polys, k + 1,
                   Append(acc, PolygonData(polys[k][1], FALSE, FALSE)))

RECURSIVE LoadLines(_, _, _)
LoadLines(lines, k, acc) ==
    IF k > Len(lines) THEN Loaded(acc)
    ELSE IF BboxRaises(lines[k]) THEN LoadFailed
    ELSE LoadLines(lines, k + 1, Append(acc, PolygonData(lines[k], TRUE, FALSE)))

(* one feature of load_geojson's loop: the records it appends.  A geometry *)
(* of any other type appends nothing.                                      *)
LoadFeature(f) ==
    CASE f.type = "Polygon" -> LoadRings(<< f.coordinates >>, 1, << >>)
      [] f.type = "MultiPolygon" -> LoadRings(f.coordinates, 1, << >>)
      [] f.type = "LineString" -> LoadLines(<< f.coordinates >>, 1, << >>)
      [] f.type = "MultiLineString" -> LoadLines(f.coordinates, 1, << >>)
      [] f.type = "Point" -> Loaded(<< PointData(f.coordinates) >>)
      [] f.type = "MultiPoint" ->
            Loaded([k \in 1 .. Len(f.coordinates) |-> PointData(f.coordinates[k])])
      [] OTHER -> Loaded(<< >>)

(* load_geojson over the features of all the files main reads, in order;   *)
(* an exception leaves main                                                *)
RECURSIVE LoadFrom(_, _, _)
LoadFrom(fs, k, acc) ==
    IF k > Len(fs) THEN Loaded(acc)
    ELSE LET one == LoadFeature(fs[k])
         IN  IF one.err THEN LoadFailed
             ELSE LoadFrom(fs, k + 1, acc \o one.polygons)

load_geojson(fs) == LoadFrom(fs, 1, << >>)

(* --------------------------- classification --------------------------- *)
(* One edge of the ray cast, for the point (x, y) and the edge from        *)
(* (xj, yj) to (xi, yi):                                                   *)
(*   ((yi > y) != (yj > y)) and (x < (xj - xi) * (y - yi) / (yj - yi) + xi) *)
(* The quotient is compared exactly; it is NaN, and the comparison false,  *)
(* when a coordinate of the edge is NaN.                                   *)
EdgeToggles(x, y, xi, yi, xj, yj) ==
    /\ Gt(yi, y) # Gt(yj, y)
    /\ ~IsNaN(xi) /\ ~IsNaN(yi) /\ ~IsNaN(xj) /\ ~IsNaN(yj)
    /\ IF yj - yi > 0
       THEN (x - xi) * (yj - yi) < (xj - xi) * (y - yi)
       ELSE (x - xi) * (yj - yi) > (xj - xi) * (y - yi)

RECURSIVE RayCast(_, _, _, _, _, _)
RayCast(x, y, polygon, i, j, inside) ==
    IF i > Len(polygon) THEN inside
    ELSE RayCast(x, y, polygon, i + 1, i,
                 IF EdgeToggles(x, y, polygon[i][1], polygon[i][2],
                                polygon[j][1], polygon[j][2])
                 THEN ~inside ELSE inside)

point_in_polygon(x, y, polygon) ==
    RayCast(x, y, polygon, 1, Len(polygon), FALSE)

(* the cells of S land, every other cell sea *)
SetLandOnly(grid, S) ==
    [r \in 1 .. Len(grid) |->
        [c \in 1 .. Len(grid[r]) |->
            IF << r - 1, c - 1 >> \in S THEN 1 ELSE 0]]

(* A grid is a list of rows, a row a list of cells; Python's grid[r][c] is *)
(* grid[r + 1][c + 1] here.  The cells of S become land.                   *)
SetLand(grid, S) ==
    [r \in 1 .. Len(grid) |->
        [c \in 1 .. Len(grid[r]) |->
            IF << r - 1, c - 1 >> \in S THEN 1 ELSE grid[r][c]]]

LandCells(grid) ==
    UNION {{<< r - 1, c - 1 >> : c \in {d \in 1 .. Len(grid[r]) : grid[r][d] = 1}} :
           r \in 1 .. Len(grid)}

(* the cell and its neighbours that lie in the grid *)
Stamp(row, col) ==
    {<< row, col >>} \cup
    {rc \in ((row - 1) .. (row + 1)) \X ((col - 1) .. (col + 1)) :
        0 <= rc[1] /\ rc[1] < HEIGHT /\ 0 <= rc[2] /\ rc[2] < WIDTH}

Marked(g) == [err |-> FALSE, grid |-> g]

MarkFailed(g) == [err |-> TRUE, grid |-> g]

(* one step per two cells: max(2, int(dist / RESOLUTION / 2)) *)
StepsPerCell(dist) == Max2(2, dist \div (4 * RESOLUTION))

(* steps = max(2, int(dist / RESOLUTION * 2)), dist in half degrees *)
Steps(dist) == Max2(2, dist \div RESOLUTION)

(* the cells of the steps + 1 interpolated points from a to b, in order *)
SegmentCenters(a, b) ==
    LET dist == Max2(AbsInt(b[1] - a[1]), AbsInt(b[2] - a[2]))
        steps == Steps(dist)
    IN  [k \in 1 .. steps + 1 |->
            LatLonToGridAt(RESOLUTION,
                           a[2] * steps + (k - 1) * (b[2] - a[2]),
                           a[1] * steps + (k - 1) * (b[1] - a[1]),
                           steps)]

SegmentRaises(a, b) == IsNaN(a[1]) \/ IsNaN(a[2]) \/ IsNaN(b[1]) \/ IsNaN(b[2])

SegmentCells(a, b) ==
    LET cs == SegmentCenters(a, b)
    IN  UNION {Stamp(cs[k][1], cs[k][2]) : k \in 1 .. Len(cs)}

RECURSIVE MarkLine(_, _, _)
MarkLine(grid, coords, i) ==
    IF i > Len(coords) - 1 THEN Marked(grid)
    ELSE IF SegmentRaises(coords[i], coords[i + 1]) THEN MarkFailed(grid)
    ELSE MarkLine(SetLand(grid, SegmentCells(coords[i], coords[i + 1])),
                  coords, i + 1)

MarkPoint(grid, pt) ==
    IF LatLonRaises(pt[2], pt[1]) THEN MarkFailed(grid)
    ELSE LET rc == lat_lon_to_grid(pt[2], pt[1])
         IN  Marked(SetLand(grid, Stamp(rc[1], rc[2])))

(* the rectangle without the row of max_lat *)
InnerRectAt(res, bbox) ==
    LET first == LatLonToGridAt(res, bbox[4], bbox[1], 1)
        last == LatLonToGridAt(res, bbox[2], bbox[3], 1)
    IN  ((first[1] + 1) .. last[1]) \X (first[2] .. last[2])

(* the rectangle of cells scanned for a polygon at resolution res:         *)
(* rows from that of max_lat to that of min_lat, columns from that of      *)
(* min_lon to that of max_lon                                              *)
ScanRectAt(res, bbox) ==
    LET first == LatLonToGridAt(res, bbox[4], bbox[1], 1)
        last == LatLonToGridAt(res, bbox[2], bbox[3], 1)
    IN  (Max2(0, first[1]) .. Min2(HeightAt(res) - 1, last[1])) \X
        (Max2(0, first[2]) .. Min2(WidthAt(res) - 1, last[2]))

CenterInside(res, rc, coords) ==
    LET ll == GridToLatLonAt(res, rc[1], rc[2])
    IN  point_in_polygon(ll[2], ll[1], coords)

(* the cells a polygon sets at resolution res *)
PolygonCellsAt(res, coords, bbox) ==
    {rc \in ScanRectAt(res, bbox) : CenterInside(res, rc, coords)}

MarkPolygon(grid, coords, bbox) ==
    IF LatLonRaises(bbox[4], bbox[1]) \/ LatLonRaises(bbox[2], bbox[3])
    THEN MarkFailed(grid)
    ELSE Marked(SetLand(grid, PolygonCellsAt(RESOLUTION, coords, bbox)))

mark_polygon_on_grid(grid, polygon_data) ==
    IF polygon_data.is_point
    THEN MarkPoint(grid, polygon_data.coords[1])
    ELSE IF polygon_data.is_line
    THEN MarkLine(grid, polygon_data.coords, 1)
    ELSE MarkPolygon(grid, polygon_data.coords, polygon_data.bbox)

(* ------------------------------ encoders ------------------------------ *)
(* save_grid_compact_json: one row's scan, columns col .. WIDTH - 1.       *)
(* row[col] raises IndexError past the end of the row.                     *)
RECURSIVE ScanRow(_, _, _, _, _, _)
ScanRow(row, col, in_land, start, segments, total) ==
    IF col >= WIDTH
    THEN [err |-> FALSE, in_land |-> in_land, start |-> start,
          segments |-> segments, total |-> total]
    ELSE IF col >= Len(row)
    THEN [err |-> TRUE, in_land |-> in_land, start |-> start,
          segments |-> segments, total |-> total]
    ELSE IF row[col + 1] = 1
    THEN ScanRow(row, col + 1, TRUE, IF in_land THEN start ELSE col,
                 segments, total)
    ELSE IF in_land
    THEN ScanRow(row, col + 1, FALSE, start,
                 Append(segments, << start, col - start >>),
                 total + (col - start))
    ELSE ScanRow(row, col + 1, FALSE, start, segments, total)

(* the open run dropped at the end of the row *)
DropOpenRun(scan) == scan

(* the open run closed one column past the row *)
ClosePastRow(scan) ==
    IF scan.in_land
    THEN [scan EXCEPT !.segments = Append(@, << scan.start, WIDTH - scan.start + 1 >>),
                      !.total = @ + (WIDTH - scan.start + 1),
                      !.in_land = FALSE]
    ELSE scan

(* the open run closed, its length not counted *)
CloseUncounted(scan) ==
    IF scan.in_land
    THEN [scan EXCEPT !.segments = Append(@, << scan.start, WIDTH - scan.start >>),
                      !.in_land = FALSE]
    ELSE scan

(* the run still open at the end of the row closes at WIDTH *)
CloseRow(scan) ==
    IF scan.in_land
    THEN [scan EXCEPT !.segments = Append(@, << scan.start, WIDTH - scan.start >>),
                      !.total = @ + (WIDTH - scan.start),
                      !.in_land = FALSE]
    ELSE scan

NotRun == [done |-> FALSE, err |-> FALSE, rows |-> << >>, total |-> 0]

RECURSIVE EncodeRows(_, _, _, _)
EncodeRows(grid, k, encoded_rows, total) ==
    IF k > Len(grid)
    THEN [done |-> TRUE, err |-> FALSE, rows |-> encoded_rows, total |-> total]
    ELSE LET scan == ScanRow(grid[k], 0, FALSE, 0, << >>, total)
             closed == CloseRow(scan)
         IN  IF scan.err
             THEN [done |-> TRUE, err |-> TRUE, rows |-> << >>, total |-> 0]
             ELSE EncodeRows(grid, k + 1, Append(encoded_rows, closed.segments),
                             closed.total)

save_grid_compact_json(grid) == EncodeRows(grid, 1, << >>, 0)

(* a | b on bytes *)
RECURSIVE BitOr(_, _)
BitOr(a, b) ==
    IF a = 0 THEN b
    ELSE IF b = 0 THEN a
    ELSE Max2(a % 2, b % 2) + 2 * BitOr(a \div 2, b \div 2)

(* 1 << bit *)
LsbFirstMask(bit) == 2 ^ bit

(* 1 << (7 - bit) *)
BitMask(bit) == 2 ^ (7 - bit)

(* save_grid_binary: the byte of columns col_start .. col_start + 7, from  *)
(* bit on; -1 stands for the IndexError of row[col] past the row's end     *)
RECURSIVE PackByte(_, _, _, _)
PackByte(row, col_start, bit, byte) ==
    IF bit > 7 THEN byte
    ELSE LET col == col_start + bit
         IN  IF col < WIDTH /\ col >= Len(row) THEN -1
             ELSE PackByte(row, col_start, bit + 1,
                           IF col < WIDTH /\ row[col + 1] = 1
                           THEN BitOr(byte, BitMask(bit)) ELSE byte)

RECURSIVE PackRow(_, _, _)
PackRow(row, col_start, packed) ==
    IF col_start >= WIDTH THEN [err |-> FALSE, packed |-> packed]
    ELSE LET byte == PackByte(row, col_start, 0, 0)
         IN  IF byte < 0 THEN [err |-> TRUE, packed |-> packed]
             ELSE PackRow(row, col_start + 8, Append(packed, byte))

NotPacked == [done |-> FALSE, err |-> FALSE, packed |-> << >>]

RECURSIVE PackRows(_, _, _)
PackRows(grid, k, packed) ==
    IF k > Len(grid) THEN [done |-> TRUE, err |-> FALSE, packed |-> packed]
    ELSE LET r == PackRow(grid[k], 0, packed)
         IN  IF r.err THEN [done |-> TRUE, err |-> TRUE, packed |-> << >>]
             ELSE PackRows(grid, k + 1, r.packed)

save_grid_binary(grid) == PackRows(grid, 1, << >>)

(* ------------ generate-land-grid-fast.py: generate_land_grid ----------- *)
(* The row loop of the fast script.  Whether the centre of cell            *)
(* (row_idx, col_idx) is on land (prepared_land.contains(point)) is given  *)
(* by land, a table of HEIGHT rows of WIDTH cells.                         *)
RECURSIVE FastScanRow(_, _, _, _, _, _, _)
FastScanRow(land, row_idx, col_idx, in_land, land_start, segments, total) ==
    IF col_idx >= WIDTH
    THEN [in_land |-> in_land, land_start |-> land_start,
          segments |-> segments, total |-> total]
    ELSE IF land[row_idx + 1][col_idx + 1] = 1
    THEN FastScanRow(land, row_idx, col_idx + 1, TRUE,
                     IF in_land THEN land_start ELSE col_idx, segments, total)
    ELSE IF in_land
    THEN FastScanRow(land, row_idx, col_idx + 1, FALSE, land_start,
                     Append(segments, << land_start, col_idx - land_start >>),
                     total + (col_idx - land_start))
    ELSE FastScanRow(land, row_idx, col_idx + 1, FALSE, land_start, segments, total)

(* close final segment if needed *)
FastCloseRow(scan) ==
    IF scan.in_land
    THEN [scan EXCEPT !.segments = Append(@, << scan.land_start, WIDTH - scan.land_start >>),
                      !.total = @ + (WIDTH - scan.land_start),
                      !.in_land = FALSE]
    ELSE scan

RECURSIVE FastRows(_, _, _, _)
FastRows(land, row_idx, rle_rows, total) ==
    IF row_idx >= HEIGHT
    THEN [done |-> TRUE, err |-> FALSE, rows |-> rle_rows, total |-> total]
    ELSE LET closed == FastCloseRow(FastScanRow(land, row_idx, 0, FALSE, 0, << >>, total))
         IN  FastRows(land, row_idx + 1, Append(rle_rows, closed.segments),
                      closed.total)

generate_land_grid(land) == FastRows(land, 0, << >>, 0)

(* a grid of HEIGHT rows of WIDTH cells *)
Proper(g) == Len(g) = HEIGHT /\ \A r \in 1 .. Len(g) : Len(g[r]) = WIDTH

(* ------------------------------- state -------------------------------- *)
VARIABLES
    pc,            \* where the run stands
    features,      \* the features of the input files, in file order
    all_polygons,  \* main's list of the records load_geojson returned
    processed,     \* main's count of the records marked so far
    grid,          \* the grid
    compact,       \* what save_grid_compact_json built: rows, totalLandCells
    binary,        \* what save_grid_binary built: the bytes
    fast,          \* what the fast script's generate_land_grid built
    coord,         \* the mapper's input <<lat, lon>>
    cell,          \* the mapper's result <<row, col>>
    origin         \* the cell whose centre coord is, if it is one

vars == << pc, features, all_polygons, processed, grid, compact, binary,
           fast, coord, cell, origin >>

NoCell == << -1, -1 >>

(* [[0] * WIDTH for _ in range(HEIGHT)] *)
EmptyGrid == [r \in 1 .. HEIGHT |-> [c \in 1 .. WIDTH |-> 0]]

(* ------------------------------ inputs -------------------------------- *)
(* Vertices the inputs are drawn from, <<lon, lat>> in half degrees: on    *)
(* and off cell borders and centres, and beyond the poles and the          *)
(* antimeridian.                                                           *)
LonPoints == {-380, -320, -200, -10, 130, 360}

LatPoints == {200, 140, 60, -20, -180}

Lattice == LonPoints \X LatPoints

Before(a, b) == a[1] < b[1] \/ (a[1] = b[1] /\ a[2] < b[2])

Feature(type, coordinates) == [type |-> type, coordinates |-> coordinates]

(* The features the multi-feature inputs are drawn from. *)
Pool ==
    << Feature("Polygon", << << << -200, -100 >>, << 120, -100 >>,
                                << 120, 140 >>, << -200, 140 >> >> >>),
       Feature("Polygon", << << << -10, 200 >>, << 360, -180 >>,
                                << -380, -20 >> >>,
                             << << 0, 0 >>, << 10, 0 >>, << 0, 10 >> >> >>),
       Feature("MultiPolygon",
               << << << << 130, 60 >>, << 300, 60 >>, << 300, -60 >>,
                        << 200, 0 >>, << 130, -60 >> >> >>,
                  << << << -360, 180 >>, << -300, 180 >>, << -300, 90 >> >> >> >>),
       Feature("MultiLineString",
               << << << -320, 140 >>, << 130, -20 >>, << 130, -180 >> >>,
                  << << 0, -170 >>, << 45, -130 >> >> >>),
       Feature("MultiPoint", << << -380, 200 >>, << 359, -179 >> >>),
       Feature("GeometryCollection", << >>),
       Feature("Polygon", << << << -200, 60 >>, << 120, -100 >> >> >>),
       Feature("LineString", << << 120, 60 >> >>),
       Feature("Point", << NaN, 60 >>),
       Feature("Polygon", << << >> >>),
       Feature("LineString", << << -10, 60 >>, << 120, 60 >>, << 130, NaN >> >>) >>

(* how many features a multi-feature input holds at most *)
MaxFeatures == 3

Injective(f) == \A a, b \in DOMAIN f : a # b => f[a] # f[b]

(* ---------------------------- main's run ------------------------------ *)
Init ==
    /\ pc = "load"
    /\ \/ \E n \in 0 .. MaxFeatures :
             \E ix \in [1 .. n -> 1 .. Len(Pool)] :
                /\ Injective(ix)
                /\ features = [k \in 1 .. n |-> Pool[ix[k]]]
       \/ \E a, b, c \in Lattice :
             /\ Before(a, b) /\ Before(b, c)
             /\ features = << Feature("Polygon", << << a, b, c >> >>) >>
       \/ \E a, b \in Lattice :
             features = << Feature("LineString", << a, b >>) >>
       \/ \E a \in Lattice : features = << Feature("Point", a) >>
    /\ all_polygons = << >>
    /\ processed = 0
    /\ grid = << >>
    /\ compact = NotRun
    /\ binary = NotPacked
    /\ fast = NotRun
    /\ coord = << 0, 0 >>
    /\ cell = NoCell
    /\ origin = NoCell

(* main, up to the grid's initialisation: the four load_geojson calls and  *)
(* the all-sea grid                                                        *)
Load ==
    /\ pc = "load"
    /\ LET got == load_geojson(features)
       IN  IF got.err
           THEN /\ pc' = "error"
                /\ UNCHANGED << all_polygons, grid >>
           ELSE /\ pc' = "mark"
                /\ all_polygons' = got.polygons
                /\ grid' = EmptyGrid
    /\ UNCHANGED << features, processed, compact, binary, coord, cell, origin, fast >>

(* one turn of main's loop over all_polygons *)
Mark ==
    /\ pc = "mark"
    /\ processed < Len(all_polygons)
    /\ LET got == mark_polygon_on_grid(grid, all_polygons[processed + 1])
       IN  /\ grid' = got.grid
           /\ IF got.err
              THEN pc' = "error" /\ UNCHANGED processed
              ELSE pc' = "mark" /\ processed' = processed + 1
    /\ UNCHANGED << features, all_polygons, compact, binary, coord, cell, origin, fast >>

SaveCompact ==
    /\ pc = "mark"
    /\ processed = Len(all_polygons)
    /\ compact' = save_grid_compact_json(grid)
    /\ pc' = IF compact'.err THEN "error" ELSE "compact_saved"
    /\ UNCHANGED << features, all_polygons, processed, grid, binary,
                    coord, cell, origin, fast >>

SaveBinary ==
    /\ pc = "compact_saved"
    /\ binary' = save_grid_binary(grid)
    /\ pc' = IF binary'.err THEN "error" ELSE "done"
    /\ UNCHANGED << features, all_polygons, processed, grid, compact,
                    coord, cell, origin, fast >>

Next == Load \/ Mark \/ SaveCompact \/ SaveBinary

Spec == Init /\ [][Next]_vars

(* ------------------- the encoders applied to a grid ------------------- *)
RowOfBits(p, n) == [c \in 1 .. n |-> (p \div (2 ^ (c - 1))) % 2]

Reversed(row) == [c \in 1 .. Len(row) |-> row[Len(row) + 1 - c]]

(* a grid of nrows rows: row k is the given one, the others the background *)
GridOf(nrows, k, row, background) ==
    [r \in 1 .. nrows |-> IF r = k THEN row ELSE background]

Backgrounds(row) ==
    {[c \in 1 .. Len(row) |-> 0], [c \in 1 .. Len(row) |-> 1], Reversed(row)}

InitEnc ==
    /\ pc = "encode"
    /\ \/ \E p \in 0 .. (2 ^ WIDTH - 1), k \in 1 .. HEIGHT :
             \E bg \in Backgrounds(RowOfBits(p, WIDTH)) :
                grid = GridOf(HEIGHT, k, RowOfBits(p, WIDTH), bg)
       \/ \E nrows \in (HEIGHT - 1) .. (HEIGHT + 1),
             ncols \in (WIDTH - 1) .. (WIDTH + 1) :
             \E p \in {0, 5, 2 ^ ncols - 1, 2 ^ (ncols - 1) + 2}, k \in 1 .. nrows :
                \E bg \in Backgrounds(RowOfBits(p, ncols)) :
                   grid = GridOf(nrows, k, RowOfBits(p, ncols), bg)
    /\ features = << >>
    /\ all_polygons = << >>
    /\ processed = 0
    /\ compact = NotRun
    /\ binary = NotPacked
    /\ fast = NotRun
    /\ coord = << 0, 0 >>
    /\ cell = NoCell
    /\ origin = NoCell

CallSaveCompact ==
    /\ pc = "encode"
    /\ ~compact.done
    /\ compact' = save_grid_compact_json(grid)
    /\ UNCHANGED << pc, features, all_polygons, processed, grid, binary,
                    coord, cell, origin, fast >>

CallSaveBinary ==
    /\ pc = "encode"
    /\ ~binary.done
    /\ binary' = save_grid_binary(grid)
    /\ UNCHANGED << pc, features, all_polygons, processed, grid, compact,
                    coord, cell, origin, fast >>

(* the fast script's loop, on a land table of the grid's size *)
CallGenerateLandGrid ==
    /\ pc = "encode"
    /\ Proper(grid)
    /\ ~fast.done
    /\ fast' = generate_land_grid(grid)
    /\ UNCHANGED << pc, features, all_polygons, processed, grid, compact, binary,
                    coord, cell, origin >>

NextEnc == CallSaveCompact \/ CallSaveBinary \/ CallGenerateLandGrid

SpecEnc == InitEnc /\ [][NextEnc]_vars

(* ---------------- the coordinate mapper applied to inputs --------------- *)
(* How far beyond the poles and the antimeridian the inputs reach, in half *)
(* degrees; two far values (200 turns either way) besides.                 *)
Beyond == 12

LatInputs == ((-180 - Beyond) .. (180 + Beyond)) \cup {-72000, 72000}

LonInputs == ((-360 - Beyond) .. (360 + Beyond)) \cup {-72000, 72000}

InitMap ==
    /\ pc = "pick"
    /\ coord = << 0, 0 >>
    /\ cell = NoCell
    /\ origin = NoCell
    /\ features = << >>
    /\ all_polygons = << >>
    /\ processed = 0
    /\ grid = << >>
    /\ compact = NotRun
    /\ binary = NotPacked
    /\ fast = NotRun

PickCell ==
    /\ pc = "pick"
    /\ \E row \in Rows, col \in Cols :
          /\ origin' = << row, col >>
          /\ coord' = grid_to_lat_lon(row, col)
    /\ pc' = "picked"
    /\ UNCHANGED << cell, features, all_polygons, processed, grid, compact, binary, fast >>

PickCoord ==
    /\ pc = "pick"
    /\ \E lat \in LatInputs, lon \in LonInputs : coord' = << lat, lon >>
    /\ pc' = "picked"
    /\ UNCHANGED << cell, origin, features, all_polygons, processed, grid,
                    compact, binary, fast >>

ToGrid ==
    /\ pc = "picked"
    /\ cell' = lat_lon_to_grid(coord[1], coord[2])
    /\ pc' = "cell"
    /\ UNCHANGED << coord, origin, features, all_polygons, processed, grid,
                    compact, binary, fast >>

NextMap == PickCell \/ PickCoord \/ ToGrid

SpecMap == InitMap /\ [][NextMap]_vars

(* ------------------------------- claims ------------------------------- *)
(* C7: the cell of a cell's centre is that cell, and the cell of any       *)
(* latitude/longitude (also beyond the poles or the antimeridian) lies in  *)
(* 0..HEIGHT-1 x 0..WIDTH-1.                                               *)
C7_CoordinateRoundTrip ==
    pc = "cell" =>
        /\ cell[1] \in Rows
        /\ cell[2] \in Cols
        /\ (origin # NoCell => cell = origin)

C7_Witness ==
    /\ pc = "cell"
    /\ origin = << HEIGHT - 1, WIDTH - 1 >>
    /\ cell = origin

(* --------------------- claims about the encoders ---------------------- *)
LandColumns(row) == {c \in 0 .. (Len(row) - 1) : row[c + 1] = 1}

(* the columns set by replaying pairs into an all-zero row *)
Replay(pairs) ==
    UNION {pairs[i][1] .. (pairs[i][1] + pairs[i][2] - 1) : i \in 1 .. Len(pairs)}

(* C1: for a HEIGHT x WIDTH grid, replaying the [start, length] pairs of   *)
(* row r into an all-zero row sets exactly the columns that are land in    *)
(* row r of the grid: none missing, none in excess, also for a row ending  *)
(* in land and for an all-sea row.                                         *)
C1_RleRoundTrip ==
    /\ (compact.done /\ Proper(grid)) =>
           /\ ~compact.err
           /\ Len(compact.rows) = HEIGHT
           /\ \A r \in 1 .. HEIGHT : Replay(compact.rows[r]) = LandColumns(grid[r])
    /\ fast.done =>
           /\ Len(fast.rows) = HEIGHT
           /\ \A r \in 1 .. HEIGHT : Replay(fast.rows[r]) = LandColumns(grid[r])

C1_Witness ==
    /\ compact.done /\ Proper(grid) /\ ~compact.err
    /\ fast.done /\ fast.rows = compact.rows
    /\ \E r, q \in 1 .. HEIGHT :
          /\ grid[r][WIDTH] = 1 /\ grid[r][1] = 1 /\ Len(compact.rows[r]) >= 2
          /\ LandColumns(grid[q]) = {} /\ compact.rows[q] = << >>

(* ceil(WIDTH / 8) *)
BytesPerRow == (WIDTH + 7) \div 8

BitOf(byte, k) == (byte \div (2 ^ k)) % 2

(* C2: for a HEIGHT x WIDTH grid the byte sequence has HEIGHT *            *)
(* ceil(WIDTH/8) bytes; cell (r, c) is land iff bit 7 - (c mod 8) of byte  *)
(* r * ceil(WIDTH/8) + floor(c/8) is 1; the bits of a row's last byte      *)
(* beyond column WIDTH - 1 are 0.                                          *)
C2_PackedRoundTrip ==
    (binary.done /\ Proper(grid)) =>
        /\ ~binary.err
        /\ Len(binary.packed) = HEIGHT * BytesPerRow
        /\ \A i \in 1 .. Len(binary.packed) : binary.packed[i] \in 0 .. 255
        /\ \A r \in Rows, c \in 0 .. (8 * BytesPerRow - 1) :
              BitOf(binary.packed[r * BytesPerRow + (c \div 8) + 1], 7 - (c % 8))
                 = IF c < WIDTH THEN grid[r + 1][c + 1] ELSE 0

C2_Witness ==
    /\ binary.done /\ Proper(grid) /\ ~binary.err
    /\ WIDTH % 8 # 0 /\ BytesPerRow > 1
    /\ \E r \in 1 .. HEIGHT :
          /\ grid[r][WIDTH] = 1 /\ grid[r][1] = 0 /\ grid[r][2] = 1
          /\ binary.packed[r * BytesPerRow] # 0
          /\ r < HEIGHT /\ grid[r + 1][1] = 0

RECURSIVE SumLengths(_, _)
SumLengths(pairs, i) ==
    IF i > Len(pairs) THEN 0 ELSE pairs[i][2] + SumLengths(pairs, i + 1)

RECURSIVE SumRows(_, _)
SumRows(rows, r) ==
    IF r > Len(rows) THEN 0 ELSE SumLengths(rows[r], 1) + SumRows(rows, r + 1)

RECURSIVE PopCount(_)
PopCount(byte) == IF byte = 0 THEN 0 ELSE (byte % 2) + PopCount(byte \div 2)

RECURSIVE PopCountAll(_, _)
PopCountAll(bytes, i) ==
    IF i > Len(bytes) THEN 0 ELSE PopCount(bytes[i]) + PopCountAll(bytes, i + 1)

(* C3: totalLandCells is the sum of the lengths of all emitted pairs, the  *)
(* number of cells equal to 1 in the grid, and the number of 1 bits in the *)
(* bytes save_grid_binary builds for the same grid.                        *)
C3_LandCellCounts ==
    (compact.done /\ binary.done /\ Proper(grid)) =>
        /\ ~compact.err /\ ~binary.err
        /\ compact.total = SumRows(compact.rows, 1)
        /\ compact.total = Cardinality(LandCells(grid))
        /\ compact.total = PopCountAll(binary.packed, 1)

C3_Witness ==
    /\ compact.done /\ binary.done /\ Proper(grid)
    /\ compact.total > WIDTH + 1
    /\ compact.total < HEIGHT * WIDTH
    /\ \E r \in 1 .. HEIGHT : Len(compact.rows[r]) >= 2 /\ grid[r][WIDTH] = 1

WellFormedRow(pairs, row) ==
    /\ \A i \in 1 .. Len(pairs) :
          /\ pairs[i][1] >= 0
          /\ pairs[i][2] >= 1
          /\ pairs[i][1] + pairs[i][2] <= WIDTH
          /\ \A c \in pairs[i][1] .. (pairs[i][1] + pairs[i][2] - 1) : row[c + 1] = 1
          /\ (pairs[i][1] > 0 => row[pairs[i][1]] = 0)
          /\ (pairs[i][1] + pairs[i][2] < WIDTH =>
                 row[pairs[i][1] + pairs[i][2] + 1] = 0)
    /\ \A i \in 1 .. (Len(pairs) - 1) :
          pairs[i][1] + pairs[i][2] < pairs[i + 1][1]

(* C8: the pairs of every row have length >= 1, end within the row         *)
(* (start + length <= WIDTH), ascend strictly by start without overlap,    *)
(* are separated by at least one sea column, and cover land only, with sea *)
(* or the row's border on both sides; rows has one entry per grid row, in  *)
(* the grid's row order.                                                   *)
C8_RleWellFormed ==
    /\ (compact.done /\ Proper(grid)) =>
           /\ ~compact.err
           /\ Len(compact.rows) = HEIGHT
           /\ \A r \in 1 .. HEIGHT : WellFormedRow(compact.rows[r], grid[r])
    /\ fast.done =>
           /\ Len(fast.rows) = HEIGHT
           /\ \A r \in 1 .. HEIGHT : WellFormedRow(fast.rows[r], grid[r])

C8_Witness ==
    /\ compact.done /\ Proper(grid) /\ ~compact.err
    /\ fast.done /\ fast.rows = compact.rows /\ fast.total = compact.total
    /\ \E r \in 1 .. HEIGHT :
          LET pairs == compact.rows[r]
          IN  /\ Len(pairs) >= 3
              /\ pairs[Len(pairs)][1] + pairs[Len(pairs)][2] = WIDTH
              /\ pairs[1][1] = 0
              /\ r > 1 /\ compact.rows[1] # pairs

(* C6: save_grid_binary, given a grid whose number of rows is not HEIGHT   *)
(* or whose rows are not WIDTH long, ends in an error and returns no byte  *)
(* sequence.                                                               *)
C6_MismatchIsFatal ==
    (binary.done /\ ~Proper(grid)) => binary.err

(* ----------------------- claims about the build ----------------------- *)
(* the cells one record sets on the all-sea grid *)
Footprint(p) == LandCells(mark_polygon_on_grid(EmptyGrid, p).grid)

HasNaN(coords) ==
    \E k \in 1 .. Len(coords) : IsNaN(coords[k][1]) \/ IsNaN(coords[k][2])

IsPolygon(p) == ~p.is_line /\ ~p.is_point

(* C4: whatever the order of the shapes, the grid after the loop is the    *)
(* union of what each shape sets on the all-sea grid, and so the same for  *)
(* every permutation; while the loop runs the grid holds what the shapes   *)
(* marked so far set, so no application turns a 1 back to 0.               *)
C4_OrderIndependent ==
    LET sofar == UNION {Footprint(all_polygons[k]) : k \in 1 .. processed}
    IN  /\ pc \in {"mark", "compact_saved", "done"} => LandCells(grid) = sofar
        /\ pc = "error" => sofar \subseteq LandCells(grid)

C4_Witness ==
    /\ pc = "done"
    /\ \E i, j, k \in 1 .. Len(all_polygons) :
          /\ k < j /\ j < i
          /\ all_polygons[i].is_point
          /\ all_polygons[j].is_line
          /\ IsPolygon(all_polygons[k])
          /\ Footprint(all_polygons[i]) \cap Footprint(all_polygons[j]) # {}
          /\ Footprint(all_polygons[j]) \cap Footprint(all_polygons[k]) # {}
          /\ ~(Footprint(all_polygons[j]) \subseteq Footprint(all_polygons[k]))
          /\ ~(Footprint(all_polygons[k]) \subseteq Footprint(all_polygons[j]))
    /\ LandCells(grid) # Rows \X Cols

(* a shape the build is to skip: a polygon of fewer than 3 vertices, a     *)
(* line of fewer than 2, a shape with a NaN coordinate                     *)
Malformed(p) ==
    \/ HasNaN(p.coords)
    \/ IsPolygon(p) /\ Len(p.coords) < 3
    \/ p.is_line /\ Len(p.coords) < 2

(* C5: a malformed shape raises no error and sets no cell: the build never *)
(* ends in an error, and the grid holds what the well-formed shapes marked *)
(* so far set.                                                             *)
C5_MalformedSkipped ==
    /\ pc # "error"
    /\ LandCells(grid) =
          UNION {Footprint(all_polygons[k]) :
                    k \in {j \in 1 .. processed : ~Malformed(all_polygons[j])}}

Scenario1Ring == << << -20, -20 >>, << 20, -20 >>, << 20, 20 >>, << -20, 20 >> >>

Scenario1Grid == (0 .. (HeightAt(1) - 1)) \X (0 .. (WidthAt(1) - 1))

Scenario1Cells == PolygonCellsAt(1, Scenario1Ring, calculate_bbox(Scenario1Ring))

Scenario1Expected ==
    {rc \in Scenario1Grid :
        LET ll == GridToLatLonAt(1, rc[1], rc[2])
        IN  -20 <= ll[1] /\ ll[1] < 20 /\ -20 <= ll[2] /\ ll[2] < 20}

Scenario1Holds ==
    /\ HeightAt(1) = 180 /\ WidthAt(1) = 360
    /\ Scenario1Cells = Scenario1Expected
    /\ Scenario1Cells = {rc \in Scenario1Grid : CenterInside(1, rc, Scenario1Ring)}
    /\ Cardinality(Scenario1Cells) = 400

(* C9: a polygon applied to the all-sea grid sets exactly the cells of the *)
(* whole grid whose centre passes point_in_polygon; the square             *)
(* (-10,-10),(10,-10),(10,10),(-10,10) at 1 degree sets exactly the 400    *)
(* cells whose centre has longitude and latitude in [-10, 10).             *)
C9_PolygonFillIsFullScan ==
    /\ (/\ pc = "mark" /\ processed = 1
        /\ IsPolygon(all_polygons[1]) /\ ~HasNaN(all_polygons[1].coords)) =>
           LandCells(grid) =
              {rc \in Rows \X Cols : CenterInside(RESOLUTION, rc, all_polygons[1].coords)}
    /\ Scenario1Holds

C9_Witness ==
    /\ pc = "mark" /\ processed = 1
    /\ IsPolygon(all_polygons[1]) /\ ~HasNaN(all_polygons[1].coords)
    /\ Len(all_polygons[1].coords) = 3
    /\ Cardinality(LandCells(grid)) >= 3
    /\ \E rc \in LandCells(grid) : rc[1] = 0 \/ rc[2] = 0
    /\ LandCells(grid) # ScanRectAt(RESOLUTION, all_polygons[1].bbox)

Adjacent(a, b) == AbsInt(a[1] - b[1]) <= 1 /\ AbsInt(a[2] - b[2]) <= 1

Neighbours(rc) ==
    {n \in ((rc[1] - 1) .. (rc[1] + 1)) \X ((rc[2] - 1) .. (rc[2] + 1)) :
        n[1] \in Rows /\ n[2] \in Cols}

SegmentConnected(a, b, land) ==
    LET cs == SegmentCenters(a, b)
    IN  /\ cs[1] = lat_lon_to_grid(a[2], a[1])
        /\ cs[Len(cs)] = lat_lon_to_grid(b[2], b[1])
        /\ \A k \in 1 .. Len(cs) :
              /\ cs[k] \in Rows \X Cols
              /\ Neighbours(cs[k]) \subseteq land
        /\ \A k \in 1 .. (Len(cs) - 1) : Adjacent(cs[k], cs[k + 1])

(* C10: along every line, two consecutive interpolated points fall in      *)
(* cells whose rows differ by at most 1 and whose columns differ by at     *)
(* most 1, from the cell of the first vertex to the cell of the last; the  *)
(* cell of every point and its neighbours inside the grid are land, and    *)
(* every such index is within 0..HEIGHT-1 and 0..WIDTH-1.                  *)
C10_LineHasNoGap ==
    \A k \in 1 .. processed :
        all_polygons[k].is_line =>
            /\ LandCells(grid) \subseteq Rows \X Cols
            /\ \A i \in 1 .. (Len(all_polygons[k].coords) - 1) :
                  SegmentConnected(all_polygons[k].coords[i],
                                   all_polygons[k].coords[i + 1], LandCells(grid))

C10_Witness ==
    /\ pc = "done" /\ processed = 1 /\ all_polygons[1].is_line
    /\ Len(all_polygons[1].coords) = 2
    /\ LET cs == SegmentCenters(all_polygons[1].coords[1], all_polygons[1].coords[2])
       IN  /\ Len(cs) >= 9
           /\ AbsInt(cs[1][1] - cs[Len(cs)][1]) >= 3
           /\ AbsInt(cs[1][2] - cs[Len(cs)][2]) >= 4

=============================================================================
